---------------------------- MODULE Spec2Model ----------------------------
(***************************************************************************)
(* A model of familysearch.py: the FamilySearch API proxy.                 *)
(*                                                                         *)
(* Strings are sequences of tokens.  A token is either one character that  *)
(* URL or query parsing looks at (":" "/" "?" "#" "&" ";" "=" "+" " ") or *)
(* a run of characters that no parser splits ("http", "alice", ...).  The  *)
(* empty string '' is the empty sequence.  An optional value (a Python     *)
(* argument that may be None) is a sequence of length 0 (None) or 1.       *)
(***************************************************************************)
EXTENDS Naturals, Sequences, FiniteSets

VARIABLES
    fs,       \* the FamilySearch instance the caller holds: None or Some(object)
    given,    \* the arguments of the constructor call that built fs
    last,     \* the most recent call: operation, arguments, server answer, result
    before,   \* cookies set by the response to the dispatch preceding the last one
    recent    \* identifier in the response of the latest successful authentication call

vars == <<fs, given, last, before, recent>>

----------------------------------------------------------------------------
(* Optional values *)

None == <<>>

Some(x) == <<x>>

IsNone(o) == o = <<>>

Val(o) == o[1]

----------------------------------------------------------------------------
(* str helpers: find, slices, split, join *)

\* s.find(one of toks) as a 1-based position; 0 when absent
RECURSIVE FindFrom(_, _, _)
FindFrom(s, toks, i) ==
    IF i > Len(s) THEN 0
    ELSE IF s[i] \in toks THEN i
    ELSE FindFrom(s, toks, i + 1)

Find(s, toks) == FindFrom(s, toks, 1)

\* s[:i-1] and s[i+1:] around the 1-based position i
Before(s, i) == SubSeq(s, 1, i - 1)

After(s, i) == SubSeq(s, i + 1, Len(s))

\* s.split(sep) for a separator in seps: always at least one field
RECURSIVE Split(_, _)
Split(s, seps) ==
    LET i == Find(s, seps)
    IN  IF i = 0 THEN <<s>>
        ELSE <<Before(s, i)>> \o Split(After(s, i), seps)

\* s.split(sep, 1)
Split1(s, seps) ==
    LET i == Find(s, seps)
    IN  IF i = 0 THEN <<s>> ELSE <<Before(s, i), After(s, i)>>

\* sep.join(parts)
RECURSIVE Join(_, _)
Join(parts, sep) ==
    IF parts = <<>> THEN <<>>
    ELSE IF Len(parts) = 1 THEN parts[1]
    ELSE parts[1] \o sep \o Join(Tail(parts), sep)

RECURSIVE Flatten(_)
Flatten(ss) == IF ss = <<>> THEN <<>> ELSE ss[1] \o Flatten(Tail(ss))

----------------------------------------------------------------------------
(* urllib.quote_plus / urllib.unquote, token by token *)

\* characters quote_plus leaves alone are the alphanumerics and "_.-";
\* every multi-character token of the model is made of those
Reserved == {":", "/", "?", "#", "&", ";", "=", "+", " "}

QuoteTok(t) ==
    CASE t = " " -> "+"
      [] t = ":" -> "%3A"
      [] t = "/" -> "%2F"
      [] t = "?" -> "%3F"
      [] t = "#" -> "%23"
      [] t = "&" -> "%26"
      [] t = ";" -> "%3B"
      [] t = "=" -> "%3D"
      [] t = "+" -> "%2B"
      [] OTHER   -> t

UnquoteTok(t) ==
    CASE t = "%3A" -> ":"
      [] t = "%2F" -> "/"
      [] t = "%3F" -> "?"
      [] t = "%23" -> "#"
      [] t = "%26" -> "&"
      [] t = "%3B" -> ";"
      [] t = "%3D" -> "="
      [] t = "%2B" -> "+"
      [] t = "%20" -> " "
      [] OTHER     -> t

quote_plus(s) == [i \in 1..Len(s) |-> QuoteTok(s[i])]

unquote(s) == [i \in 1..Len(s) |-> UnquoteTok(s[i])]

\* nv.replace('+', ' ')
PlusToSpace(s) == [i \in 1..Len(s) |-> IF s[i] = "+" THEN " " ELSE s[i]]

----------------------------------------------------------------------------
(* urlparse.parse_qsl and urllib.urlencode *)

\* urlparse.parse_qsl(qs, keep_blank_values), strict_parsing = 0:
\* the fields between "&" and ";", each split at its first "="
\* one field: nv is name_value.split('=', 1); the result is the list of
\* pairs the field adds (none or one)
ParseField(name_value, nv, keep_blank_values) ==
    IF name_value = <<>> THEN <<>>
    ELSE IF Len(nv) # 2 /\ ~keep_blank_values THEN <<>>
    ELSE IF Len(nv) # 2 THEN << <<unquote(PlusToSpace(nv[1])), <<>> >> >>
    ELSE IF Len(nv[2]) > 0 \/ keep_blank_values
    THEN << <<unquote(PlusToSpace(nv[1])), unquote(PlusToSpace(nv[2]))>> >>
    ELSE <<>>

ParseFields(fields, keep_blank_values) ==
    Flatten([i \in 1..Len(fields) |->
                ParseField(fields[i], Split1(fields[i], {"="}), keep_blank_values)])

\* pairs = [s2 for s1 in qs.split('&') for s2 in s1.split(';')]
SplitEach(fields, seps) == Flatten([i \in 1..Len(fields) |-> Split(fields[i], seps)])

parse_qsl(qs, keep_blank_values) ==
    ParseFields(SplitEach(Split(qs, {"&"}), {";"}), keep_blank_values)

\* urllib.urlencode(sequence of two-element tuples)
urlencode(query) ==
    Join([i \in 1..Len(query) |->
             quote_plus(query[i][1]) \o <<"=">> \o quote_plus(query[i][2])],
         <<"&">>)

----------------------------------------------------------------------------
(* urlparse.urlsplit and urlparse.urlunsplit *)

Lower(t) ==
    CASE t = "HTTP"  -> "http"
      [] t = "HTTPS" -> "https"
      [] OTHER       -> t

lower(s) == [i \in 1..Len(s) |-> Lower(s[i])]

\* tokens made only of digits (a port number after the first colon)
DigitTokens == {"80", "8080"}

\* schemes whose URLs carry a network location
uses_netloc == {<<>>, <<"http">>, <<"https">>, <<"ftp">>, <<"file">>}

\* url.split(sep, 1) with the second part '' when sep is absent
Cut(s, i) == IF i = 0 THEN <<s, <<>> >> ELSE <<Before(s, i), After(s, i)>>

\* netloc, url = _splitnetloc(url, 2) when url starts with '//'
NetlocEnd(url, delim) == IF delim = 0 THEN Len(url) + 1 ELSE delim

SplitNetloc(url, end) ==
    IF Len(url) >= 2 /\ url[1] = "/" /\ url[2] = "/"
    THEN <<SubSeq(url, 3, end - 1), SubSeq(url, end, Len(url))>>
    ELSE <<<<>>, url>>

\* the part after an accepted scheme, or the whole url: netloc, then the
\* fragment after the first '#', then the query after the first '?'
SplitQuery(scheme, netloc, pq, fragment) == <<scheme, netloc, pq[1], pq[2], fragment>>

SplitFragment(scheme, netloc, uf) ==
    SplitQuery(scheme, netloc, Cut(uf[1], Find(uf[1], {"?"})), uf[2])

SplitNet(scheme, nu) == SplitFragment(scheme, nu[1], Cut(nu[2], Find(nu[2], {"#"})))

SplitRest(scheme, url) ==
    SplitNet(scheme, SplitNetloc(url, NetlocEnd(url, FindFrom(url, {"/", "?", "#"}, 3))))

\* i is the position of the first ':'
IsScheme(head, rest) ==
    /\ \A k \in 1..Len(head) : head[k] \notin Reserved
    /\ \/ head = <<"http">>
       \/ rest # <<>> /\ \E k \in 1..Len(rest) : rest[k] \notin DigitTokens

SplitScheme(url, i) ==
    IF i > 1 /\ IsScheme(Before(url, i), After(url, i))
    THEN SplitRest(lower(Before(url, i)), After(url, i))
    ELSE SplitRest(<<>>, url)

urlsplit(url) == SplitScheme(url, Find(url, {":"}))

WithNetloc(scheme, netloc, url) ==
    IF netloc # <<>>
       \/ (scheme # <<>> /\ scheme \in uses_netloc
           /\ ~(Len(url) >= 2 /\ url[1] = "/" /\ url[2] = "/"))
    THEN <<"/", "/">> \o netloc \o (IF url # <<>> /\ url[1] # "/" THEN <<"/">> ELSE <<>>) \o url
    ELSE url

urlunsplit(parts) ==
    (IF parts[1] # <<>> THEN parts[1] \o <<":">> ELSE <<>>)
        \o WithNetloc(parts[1], parts[2], parts[3])
        \o (IF parts[4] # <<>> THEN <<"?">> \o parts[4] ELSE <<>>)
        \o (IF parts[5] # <<>> THEN <<"#">> \o parts[5] ELSE <<>>)

----------------------------------------------------------------------------
(* FamilySearch._add_json_format *)

dataFormat == <<"dataFormat">>

application_json == <<"application", "/", "json">>

\* parts is urlsplit(url): the query gets one more pair, the rest is kept
AppendJsonFormat(parts) ==
    urlunsplit(<<parts[1], parts[2], parts[3],
                 urlencode(parse_qsl(parts[4], FALSE)
                               \o << <<dataFormat, application_json>> >>),
                 parts[5]>>)

_add_json_format(url) == AppendJsonFormat(urlsplit(url))

----------------------------------------------------------------------------
(* The remote service and the transport (urllib2 opener with a cookie jar) *)

\* what the service answers to one request: a 2xx response, an HTTP error
\* status, or no answer at all (connection refused, timeout, DNS failure)
Answer(kind, body, setCookies) == [kind |-> kind, body |-> body, setCookies |-> setCookies]

NoAnswer == Answer("net_error", "", {})

Servers ==
    {Answer("ok", "session S1", {"c1"}),
     Answer("ok", "session S2", {}),
     Answer("ok", "no session", {"c2"}),
     Answer("ok", "malformed", {}),
     Answer("http_error", "error page", {"c2"}),
     NoAnswer}

\* identity.parse(response).session.id
ParseSessionId(body) ==
    CASE body = "session S1" -> [raised |-> "", id |-> <<"S1">>]
      [] body = "session S2" -> [raised |-> "", id |-> <<"S2">>]
      [] body = "no session" -> [raised |-> "AttributeError", id |-> <<>>]
      [] OTHER               -> [raised |-> "ParseError", id |-> <<>>]

\* header the opener adds when the request carries no User-Agent of its own
DefaultUserAgent == <<"Python-urllib", "/", "2.7">>

\* urllib2.build_opener(urllib2.HTTPCookieProcessor): a new opener with a
\* cookie jar of its own, empty
build_opener == [cookiejar |-> {}]

\* opener.open(request): the jar's cookies go out with the request, the
\* response's cookies go into the jar, an error status or no answer raises
Open(opener, request, srv) ==
    [opener |-> [cookiejar |-> IF srv.kind = "net_error" THEN opener.cookiejar
                               ELSE opener.cookiejar \cup srv.setCookies],
     exchange |-> [request |-> [method |-> request.method,
                                url |-> request.url,
                                data |-> request.data,
                                user_agent |-> IF IsNone(request.user_agent)
                                               THEN DefaultUserAgent
                                               ELSE Val(request.user_agent),
                                cookies |-> opener.cookiejar],
                   response |-> srv],
     raised |-> CASE srv.kind = "net_error"  -> "URLError"
                  [] srv.kind = "http_error" -> "HTTPError"
                  [] OTHER                   -> "",
     response |-> srv.body]

\* urllib2.Request(url, data): POST when data is supplied, GET otherwise
Request(url, data) ==
    [url |-> url,
     data |-> data,
     method |-> IF IsNone(data) THEN "GET" ELSE "POST",
     user_agent |-> None]

add_header_User_Agent(request, value) == [request EXCEPT !.user_agent = Some(value)]

----------------------------------------------------------------------------
(* FamilySearch._request *)

\* what one opener.open leaves behind: o is its outcome
Opened(self, o) ==
    [self |-> [self EXCEPT !.opener = o.opener],
     sent |-> <<o.exchange>>, raised |-> o.raised, response |-> o.response]

\* a request that never adds the User-Agent header
_request_no_header(self, url, data, srv) ==
    Opened(self, Open(self.opener, Request(_add_json_format(url), data), srv))

\* a request that builds a new opener (a new cookie jar) for every call
_request_new_opener(self, url, data, srv) ==
    Opened(self, Open(build_opener,
                      add_header_User_Agent(Request(_add_json_format(url), data), self.agent),
                      srv))

\* a request that posts only when data is non-empty ("if data:")
_request_truthy_post(self, url, data, srv) ==
    Opened(self, Open(self.opener,
                      add_header_User_Agent(
                          Request(_add_json_format(url),
                                  IF data = Some(<<>>) THEN None ELSE data),
                          self.agent),
                      srv))

\* a request that is sent again when the first attempt gets no answer
Retried(r) == IF r.raised = "URLError" THEN [r EXCEPT !.sent = r.sent \o r.sent] ELSE r

_request_retry(self, url, data, srv) ==
    Retried(Opened(self, Open(self.opener,
                              add_header_User_Agent(Request(_add_json_format(url), data),
                                                    self.agent),
                              srv)))

_request(self, url, data, srv) ==
    Opened(self, Open(self.opener,
                      add_header_User_Agent(Request(_add_json_format(url), data), self.agent),
                      srv))

----------------------------------------------------------------------------
(* FamilySearch.login / initialize / authenticate *)

\* self.session = identity.parse(<response>).session.id; return self.session
\* r is the outcome of the _request call on the right-hand side: an exception
\* raised while it is evaluated leaves the assignment undone
StoreSession(r) ==
    LET p == ParseSessionId(r.response)
    IN  IF r.raised # ""
        THEN [self |-> r.self, sent |-> r.sent, raised |-> r.raised, value |-> None]
        ELSE IF p.raised # ""
        THEN [self |-> r.self, sent |-> r.sent, raised |-> p.raised, value |-> None]
        ELSE [self |-> [r.self EXCEPT !.session = Some(p.id)],
              sent |-> r.sent, raised |-> "", value |-> Some(p.id)]

\* urlencode of a dict: the model encodes the keys in the order they are written

\* a login that forgets the old session before it asks for a new one
login_clears_first(self, username, password, srv) ==
    LET credentials == urlencode(<< <<<<"username">>, username>>,
                                    <<<<"password">>, password>>,
                                    <<<<"key">>, self.key>> >>)
    IN  StoreSession(_request([self EXCEPT !.session = None],
                              self.login_url, Some(credentials), srv))

login(self, username, password, srv) ==
    LET credentials == urlencode(<< <<<<"username">>, username>>,
                                    <<<<"password">>, password>>,
                                    <<<<"key">>, self.key>> >>)
    IN  StoreSession(_request(self, self.login_url, Some(credentials), srv))

\* an initialize that assigns whatever the parser yields, also nothing
initialize_stores_anything(self, srv) ==
    LET key == urlencode(<< <<<<"key">>, self.key>> >>)
        r == StoreSession(_request(self, self.initialize_url, Some(key), srv))
    IN  IF r.raised \in {"AttributeError", "ParseError"}
        THEN [r EXCEPT !.self.session = None]
        ELSE r

initialize(self, srv) ==
    LET key == urlencode(<< <<<<"key">>, self.key>> >>)
    IN  StoreSession(_request(self, self.initialize_url, Some(key), srv))

\* an authenticate that keeps the identifier a client already holds
authenticate_keeps_old(self, username, password, srv) ==
    LET credentials == urlencode(<< <<<<"username">>, username>>,
                                    <<<<"password">>, password>> >>)
        r == StoreSession(_request(self, self.authenticate_url, Some(credentials), srv))
    IN  IF r.raised = "" /\ ~IsNone(self.session)
        THEN [r EXCEPT !.self.session = self.session]
        ELSE r

\* an authenticate that refuses to run before a session exists
authenticate_needs_session(self, username, password, srv) ==
    LET credentials == urlencode(<< <<<<"username">>, username>>,
                                    <<<<"password">>, password>> >>)
    IN  IF IsNone(self.session)
        THEN [self |-> self, sent |-> <<>>, raised |-> "ValueError", value |-> None]
        ELSE StoreSession(_request(self, self.authenticate_url, Some(credentials), srv))

authenticate(self, username, password, srv) ==
    LET credentials == urlencode(<< <<<<"username">>, username>>,
                                    <<<<"password">>, password>> >>)
    IN  StoreSession(_request(self, self.authenticate_url, Some(credentials), srv))

----------------------------------------------------------------------------
(* FamilySearch.__init__ *)

__version__ == <<"0.1">>

\* Python truth of an optional string: neither None nor ''
Truthy(o) == ~IsNone(o) /\ Val(o) # <<>>

\* the attribute assignments of the constructor, before the optional login
NewObject(agent, key, session, base) ==
    LET identity_base == base \o <<"/", "identity", "/", "v2", "/">>
    IN  [agent |-> agent \o <<" ", "Python-FS-Stack", "/">> \o __version__,
         key |-> key,
         session |-> session,
         base |-> base,
         login_url |-> identity_base \o <<"login">>,
         initialize_url |-> identity_base \o <<"initialize">>,
         authenticate_url |-> identity_base \o <<"authenticate">>,
         opener |-> build_opener]

\* a constructor that logs in first and stores the session argument afterwards
__init__session_last(agent, key, username, password, session, base, srv) ==
    LET self == NewObject(agent, key, session, base)
        r == login(self, Val(username), Val(password), srv)
    IN  IF Truthy(username) /\ Truthy(password)
        THEN [r EXCEPT !.self.session = session, !.value = None]
        ELSE [self |-> self, sent |-> <<>>, raised |-> "", value |-> None]

__init__(agent, key, username, password, session, base, srv) ==
    LET self == NewObject(agent, key, session, base)
    IN  IF Truthy(username) /\ Truthy(password)
        THEN [login(self, Val(username), Val(password), srv) EXCEPT !.value = None]
        ELSE [self |-> self, sent |-> <<>>, raised |-> "", value |-> None]

----------------------------------------------------------------------------
(* What callers pass in *)

MaxQueryLen == 3

Agents == {<<"ClientApp", "/", "1.0">>, <<"OtherApp">>}

Keys == {<<"developer_key">>}

Usernames == {<<"alice">>}

Passwords == {<<"secret">>}

\* constructor arguments username and password: absent, empty or a value
CtorUsernames == {None, Some(<<>>), Some(<<"alice">>)}

CtorPasswords == {None, Some(<<>>), Some(<<"secret">>)}

\* constructor argument session: absent, or an identifier the caller kept
CtorSessions == {None, Some(<<"U0">>)}

\* the default base: the Reference System
Bases == {<<"http", ":", "/", "/", "www.dev.usys.org">>}

\* URLs handed to _request directly
DispatchUrls ==
    {<<"http", ":", "/", "/", "www.dev.usys.org", "/", "tree", "?", "a", "=", "b">>,
     <<"http", ":", "/", "/", "www.dev.usys.org", "/", "tree", "?",
       "dataFormat", "=", "xml", "#", "top">>}

DispatchBodies == {None, Some(<<>>), Some(<<"x", "=", "y">>)}

\* query strings of up to MaxQueryLen tokens
QueryTokens == {"a", "=", "&", ";", "+", "dataFormat"}

Queries == UNION {[1..n -> QueryTokens] : n \in 0..MaxQueryLen}

Fragments == {<<>>, <<"top">>}

RichUrls ==
    {<<"http", ":", "/", "/", "h", "/", "p">>
        \o (IF q = <<>> THEN <<>> ELSE <<"?">> \o q)
        \o (IF f = <<>> THEN <<>> ELSE <<"#">> \o f) : q \in Queries, f \in Fragments}

OkAnswer == Answer("ok", "session S1", {})

----------------------------------------------------------------------------
(* The calls a program makes on one FamilySearch instance *)

NoCall ==
    [op |-> "none", username |-> None, password |-> None, url |-> None, data |-> None,
     srv |-> NoAnswer, prev |-> None, self |-> None,
     sent |-> <<>>, raised |-> "", value |-> None]

\* the record of one call: r is what the called method did
Called(op, username, password, url, data, srv, prev, r) ==
    [op |-> op, username |-> username, password |-> password, url |-> url, data |-> data,
     srv |-> srv, prev |-> prev, self |-> Some(r.self),
     sent |-> r.sent, raised |-> r.raised, value |-> r.value]

AuthOps == {"login", "initialize", "authenticate"}

\* the session identifier a response body carries
CarriesId(srv) == srv.kind = "ok" /\ srv.body \in {"session S1", "session S2"}

IdOf(srv) == IF srv.body = "session S1" THEN <<"S1">> ELSE <<"S2">>

\* cookies set by the response to the last request sent so far on this instance
LastSetCookies ==
    IF last.sent = <<>> THEN None
    ELSE Some(last.sent[Len(last.sent)].response.setCookies)

\* fs = FamilySearch(agent, key, username, password, session, base);
\* when the constructor raises, the caller gets no object
Built(agent, key, username, password, session, base, srv, r) ==
    /\ fs' = IF r.raised = "" THEN Some(r.self) ELSE None
    /\ given' = Some([agent |-> agent, key |-> key, session |-> session, base |-> base])
    /\ last' = Called("__init__", username, password, None, None, srv, None, r)
    /\ before' = None
    /\ recent' = IF r.sent # <<>> /\ r.raised = "" THEN Some(IdOf(srv)) ELSE None

Construct ==
    /\ IsNone(fs)
    /\ \E agent \in Agents, key \in Keys, username \in CtorUsernames,
          password \in CtorPasswords, session \in CtorSessions, base \in Bases :
          \E srv \in (IF Truthy(username) /\ Truthy(password) THEN Servers ELSE {NoAnswer}) :
             Built(agent, key, username, password, session, base, srv,
                   __init__(agent, key, username, password, session, base, srv))

\* a method of the instance has run: r is what it did
Returned(op, username, password, url, data, srv, r) ==
    /\ fs' = Some(r.self)
    /\ last' = Called(op, username, password, url, data, srv, fs, r)
    /\ before' = LastSetCookies
    /\ recent' = IF op \in AuthOps /\ r.raised = "" THEN Some(IdOf(srv)) ELSE recent
    /\ UNCHANGED given

CallLogin ==
    /\ ~IsNone(fs)
    /\ \E username \in Usernames, password \in Passwords, srv \in Servers :
          Returned("login", Some(username), Some(password), None, None, srv,
                   login(Val(fs), username, password, srv))

CallInitialize ==
    /\ ~IsNone(fs)
    /\ \E srv \in Servers :
          Returned("initialize", None, None, None, None, srv, initialize(Val(fs), srv))

CallAuthenticate ==
    /\ ~IsNone(fs)
    /\ \E username \in Usernames, password \in Passwords, srv \in Servers :
          Returned("authenticate", Some(username), Some(password), None, None, srv,
                   authenticate(Val(fs), username, password, srv))

\* the caller of _request gets the response stream, or the exception
Response(r) ==
    [self |-> r.self, sent |-> r.sent, raised |-> r.raised,
     value |-> IF r.raised = "" THEN Some(<<r.response>>) ELSE None]

\* a direct dispatch: fs._request(url, data)
Dispatch(urls, bodies, servers) ==
    /\ ~IsNone(fs)
    /\ \E url \in urls, data \in bodies, srv \in servers :
          Returned("_request", None, None, Some(url), data, srv,
                   Response(_request(Val(fs), url, data, srv)))

CallRequest == Dispatch(DispatchUrls, DispatchBodies, Servers)

Init ==
    /\ fs = None
    /\ given = None
    /\ last = NoCall
    /\ before = None
    /\ recent = None

Next ==
    \/ Construct
    \/ CallLogin
    \/ CallInitialize
    \/ CallAuthenticate
    \/ CallRequest

Spec == Init /\ [][Next]_vars

\* _add_json_format as a function of its input: Init draws the URL, the one
\* action dispatches it on a client of the Reference System
InitUrl ==
    /\ fs = Some(NewObject(<<"ClientApp", "/", "1.0">>, <<"developer_key">>, None,
                           <<"http", ":", "/", "/", "www.dev.usys.org">>))
    /\ given = Some([agent |-> <<"ClientApp", "/", "1.0">>, key |-> <<"developer_key">>,
                     session |-> None,
                     base |-> <<"http", ":", "/", "/", "www.dev.usys.org">>])
    /\ \E url \in RichUrls : last = [NoCall EXCEPT !.op = "pending", !.url = Some(url)]
    /\ before = None
    /\ recent = None

RewriteUrl ==
    /\ last.op = "pending"
    /\ Dispatch({Val(last.url)}, {None}, {OkAnswer})

NextUrl == RewriteUrl

SpecUrl == InitUrl /\ [][NextUrl]_vars

----------------------------------------------------------------------------
(* Properties *)

HasClient == ~IsNone(fs)

Session == Val(fs).session

SessionBefore == Val(last.prev).session

\* the exception a call of login, initialize or authenticate ends with, given
\* what the service answered; "" when it returns
AnswerError(srv) ==
    CASE srv.kind = "net_error"  -> "URLError"
      [] srv.kind = "http_error" -> "HTTPError"
      [] srv.body = "malformed"  -> "ParseError"
      [] srv.body = "no session" -> "AttributeError"
      [] OTHER                   -> ""

\* dataFormat=application/json as urlencode writes it ("/" is %2F)
JsonPair == <<"dataFormat", "=", "application", "%2F", "json">>

EndsWithJsonPair(url) ==
    /\ Len(url) > Len(JsonPair)
    /\ SubSeq(url, Len(url) - Len(JsonPair) + 1, Len(url)) = JsonPair
    /\ url[Len(url) - Len(JsonPair)] \in {"?", "&"}

UserAgentOf(agent) == agent \o <<" ", "Python-FS-Stack", "/", "0.1">>

\* the pairs of a query string: every field with an "=", decoded, in order
PairOf(field) ==
    IF Find(field, {"="}) = 0 THEN <<>>
    ELSE << <<unquote(PlusToSpace(Before(field, Find(field, {"="})))),
              unquote(PlusToSpace(After(field, Find(field, {"="}))))>> >>

PairsOf(fields) == Flatten([i \in 1..Len(fields) |-> PairOf(fields[i])])

OriginalPairs(qs) == PairsOf(SplitEach(Split(qs, {"&"}), {";"}))

\* C1: a call of login, initialize or authenticate either succeeds, and then
\* the identifier of the response is stored and returned, or raises, and then
\* the stored identifier is the one held before the call.
C1_AllOrNothing ==
    last.op \in AuthOps =>
        \/ /\ last.raised = ""
           /\ CarriesId(last.srv)
           /\ Session = Some(IdOf(last.srv))
           /\ last.value = Some(IdOf(last.srv))
        \/ /\ last.raised # ""
           /\ ~CarriesId(last.srv)
           /\ Session = SessionBefore
           /\ last.value = None

\* a login that fails on a client that already holds an identifier
C1_Witness ==
    /\ last.op = "login"
    /\ last.raised \in {"URLError", "HTTPError", "ParseError", "AttributeError"}
    /\ SessionBefore = Some(<<"S1">>)
    /\ Session = Some(<<"S1">>)

\* C2: once a call has succeeded, the stored identifier is the one carried by
\* the response of the most recent successful call, which that call returned;
\* an identifier stored earlier is overwritten.
C2_SessionIsMostRecent ==
    HasClient /\ ~IsNone(recent) =>
        /\ Session = recent
        /\ last.op \in AuthOps /\ last.raised = "" => last.value = recent

\* a successful authenticate on a client holding S1 leaves S2
C2_Witness ==
    /\ last.op = "authenticate"
    /\ last.raised = ""
    /\ SessionBefore = Some(<<"S1">>)
    /\ recent = Some(<<"S2">>)
    /\ Session = Some(<<"S2">>)

\* the constructor call of `last` against construction without credentials
\* followed by login(username, password), the service answering the same
SameAsConstructThenLogin(bare) ==
    /\ bare.sent = <<>>
    /\ bare.raised = ""
    /\ last.sent = login(bare.self, Val(last.username), Val(last.password), last.srv).sent
    /\ last.raised = login(bare.self, Val(last.username), Val(last.password), last.srv).raised
    /\ last.self = Some(login(bare.self, Val(last.username), Val(last.password), last.srv).self)

BareClient ==
    __init__(Val(given).agent, Val(given).key, None, None,
             Val(given).session, Val(given).base, last.srv)

\* C3 (as stated): whenever username and password are both supplied, the
\* constructor does what construction without them followed by login does.
C3_SuppliedCredentialsEquivalent ==
    last.op = "__init__" /\ ~IsNone(last.username) /\ ~IsNone(last.password) =>
        SameAsConstructThenLogin(BareClient)

\* C3 (amended): whenever username and password are both non-empty, the
\* constructor does what construction without them followed by login does:
\* the same request, the same object state, the same exception.
C3_NonEmptyCredentialsEquivalent ==
    last.op = "__init__" /\ Truthy(last.username) /\ Truthy(last.password) =>
        SameAsConstructThenLogin(BareClient)

\* a constructor that was given a session and credentials, and logged in
C3_Witness ==
    /\ last.op = "__init__"
    /\ Truthy(last.username) /\ Truthy(last.password)
    /\ Len(last.sent) = 1
    /\ last.raised = ""
    /\ Val(given).session = Some(<<"U0">>)

\* C4 (as stated): an identifier a client holds was set by a successful
\* authentication call, never taken from what the caller passed in.
C4_SessionNeverFromInput ==
    HasClient /\ ~IsNone(Session) => Session = recent

\* C4 (amended): a client holds at most one identifier; construction sets it
\* to the session argument (or to the identifier of the constructor's login),
\* and afterwards only a successful login, initialize or authenticate changes
\* it, to the identifier of its response.
C4_SessionSetByConstructorOrAuth ==
    [][~IsNone(fs') =>
          /\ Len(Val(fs').session) <= 1
          /\ \/ /\ IsNone(fs)
                /\ Val(fs').session = IF last'.sent # <<>> THEN Some(IdOf(last'.srv))
                                      ELSE Val(given').session
             \/ /\ ~IsNone(fs)
                /\ Val(fs').session = Val(fs).session
             \/ /\ ~IsNone(fs)
                /\ last'.op \in AuthOps
                /\ last'.raised = ""
                /\ CarriesId(last'.srv)
                /\ Val(fs').session = Some(IdOf(last'.srv))]_vars

\* a client still holding the session argument after a failed initialize
C4_Witness ==
    /\ HasClient
    /\ Val(given).session = Some(<<"U0">>)
    /\ Session = Some(<<"U0">>)
    /\ last.op = "initialize"
    /\ last.raised # ""

Rewritten(in, out) ==
    /\ OriginalPairs(out[4]) = OriginalPairs(in[4]) \o << <<dataFormat, application_json>> >>
    /\ out[1] = in[1]
    /\ out[2] = in[2]
    /\ out[3] = in[3]
    /\ out[5] = in[5]

\* C5: the URL _add_json_format returns has every original key-value pair in
\* the original order, pairs with an empty value included, then
\* dataFormat=application/json as the last pair; scheme, host, path and
\* fragment are those of the input.
C5_QueryPairsPreserved ==
    last.op = "_request" =>
        Rewritten(urlsplit(Val(last.url)), urlsplit(last.sent[1].request.url))

\* C6: every request sent carries dataFormat=application/json in its query
\* and the User-Agent '<agent> Python-FS-Stack/<version>' of the agent given
\* at construction, which no operation changes.
C6_WireContract ==
    /\ \A i \in 1..Len(last.sent) :
          /\ last.sent[i].request.user_agent = UserAgentOf(Val(given).agent)
          /\ EndsWithJsonPair(Before(last.sent[i].request.url \o <<"#">>,
                                     Find(last.sent[i].request.url \o <<"#">>, {"#"})))
    /\ HasClient => Val(fs).agent = UserAgentOf(Val(given).agent)

\* the request of the login the constructor triggers
C6_Witness ==
    /\ last.op = "__init__"
    /\ Len(last.sent) = 1
    /\ Val(given).agent = <<"OtherApp">>

\* C7: the cookies set by the response to one dispatch are presented in the
\* request of the next dispatch on the same instance.
C7_CookiesCarried ==
    ~IsNone(before) /\ last.sent # <<>> =>
        Val(before) \subseteq last.sent[1].request.cookies

\* a dispatch right after a response that set cookie c1
C7_Witness ==
    /\ before = Some({"c1"})
    /\ last.op = "_request"
    /\ "c1" \in last.sent[1].request.cookies

\* C8: a dispatch without a body is a GET, a dispatch with a body (an empty
\* one too) is a POST of that body; login, initialize and authenticate POST.
C8_GetOrPost ==
    \A i \in 1..Len(last.sent) :
        /\ last.op = "_request" /\ IsNone(last.data) =>
              last.sent[i].request.method = "GET" /\ IsNone(last.sent[i].request.data)
        /\ last.op = "_request" /\ ~IsNone(last.data) =>
              last.sent[i].request.method = "POST" /\ last.sent[i].request.data = last.data
        /\ last.op \in AuthOps \cup {"__init__"} =>
              last.sent[i].request.method = "POST" /\ ~IsNone(last.sent[i].request.data)

\* a dispatch with an empty body
C8_Witness ==
    /\ last.op = "_request"
    /\ last.data = Some(<<>>)
    /\ last.sent[1].request.method = "POST"

\* C9: authenticate is sent to the authenticate endpoint whatever the client
\* holds, also no session at all, and the caller sees the error of the
\* transport or of the parser, or none.
C9_AuthenticateNotRejected ==
    last.op = "authenticate" =>
        /\ Len(last.sent) = 1
        /\ last.sent[1].request.url =
               Val(given).base \o <<"/", "identity", "/", "v2", "/", "authenticate", "?">>
                   \o JsonPair
        /\ ~IsNone(last.sent[1].request.data)
        /\ {OriginalPairs(Val(last.sent[1].request.data))[k] : k \in 1..2} =
               {<<<<"username">>, Val(last.username)>>, <<<<"password">>, Val(last.password)>>}
        /\ last.raised = AnswerError(last.srv)

\* authenticate on a fresh client that holds no session
C9_Witness ==
    /\ last.op = "authenticate"
    /\ IsNone(SessionBefore)
    /\ Len(last.sent) = 1

\* C10: a call of login, initialize, authenticate or _request sends exactly
\* one request, whether it succeeds or fails; a transport failure or an HTTP
\* error status reaches the caller.
C10_SingleAttempt ==
    /\ last.op \in AuthOps \cup {"_request"} => Len(last.sent) = 1
    /\ last.op = "__init__" /\ Truthy(last.username) /\ Truthy(last.password) =>
          Len(last.sent) = 1
    /\ last.sent # <<>> /\ last.srv.kind = "net_error" => last.raised = "URLError"
    /\ last.sent # <<>> /\ last.srv.kind = "http_error" => last.raised = "HTTPError"

\* a login that got no answer
C10_Witness ==
    /\ last.op = "login"
    /\ last.srv.kind = "net_error"
    /\ last.raised = "URLError"
    /\ Len(last.sent) = 1

=============================================================================
